---- MODULE Spec2Model ----
(***************************************************************************)
(* Model of the Finance EPS Service (src/app/main.py): the Basics Resolver *)
(* _get_basics, the GET /basics endpoint and the POST /proforma            *)
(* calculator.                                                             *)
(*                                                                         *)
(* Numbers.  Python floats are modelled as exact rationals <<n, d>> in     *)
(* lowest terms with d > 0, so every formula of the calculator is computed *)
(* as written, without binary rounding.  An Optional value is a sequence   *)
(* of length 0 (None) or 1 (the value).                                    *)
(***************************************************************************)
EXTENDS Integers, Sequences, FiniteSets, TLC

VARIABLES
    ep,     \* the endpoint being served: "idle", "basics", "acquirer" (proforma
            \* awaiting A), "target" (proforma awaiting T) or "done"
    req,    \* the ProFormaRequest being served
    fr,     \* the frame of the current call of _get_basics: pc and locals
    ret,    \* the value the last call of _get_basics returned
    A,      \* proforma's A
    T,      \* proforma's T
    resp,   \* the ProFormaResponse, status 0 while there is none
    notes   \* proforma's list notes

vars == <<ep, req, fr, ret, A, T, resp, notes>>

-----------------------------------------------------------------------------
(* Optional values *)

None == <<>>

Some(v) == <<v>>

-----------------------------------------------------------------------------
(* Exact rational arithmetic standing for float arithmetic *)

Abs(n) == IF n < 0 THEN -n ELSE n

RECURSIVE GCD(_, _)
GCD(a, b) == IF b = 0 THEN a ELSE GCD(b, a % b)

\* The result of a division by zero: Python raises ZeroDivisionError there.
ZeroDivisionError == <<0, 0>>

Norm(n, d) ==
    IF d = 0 THEN ZeroDivisionError
    ELSE LET s == IF d < 0 THEN -1 ELSE 1
             g == GCD(Abs(n), Abs(d))
         IN  <<(s * n) \div g, (s * d) \div g>>

Rat(n, d) == Norm(n, d)

Zero == Rat(0, 1)

One == Rat(1, 1)

RAdd(x, y) == Norm(x[1] * y[2] + y[1] * x[2], x[2] * y[2])

RSub(x, y) == Norm(x[1] * y[2] - y[1] * x[2], x[2] * y[2])

RMul(x, y) == Norm(x[1] * y[1], x[2] * y[2])

\* x / y; a zero y gives ZeroDivisionError
RDiv(x, y) == Norm(x[1] * y[2], x[2] * y[1])

RLt(x, y) == x[1] * y[2] < y[1] * x[2]

RGt(x, y) == RLt(y, x)

\* Python's min(a, b) and max(a, b): the first argument unless the second is
\* strictly smaller (larger)
PyMin(a, b) == IF RLt(b, a) THEN b ELSE a

PyMax(a, b) == IF RGt(b, a) THEN b ELSE a

-----------------------------------------------------------------------------
(* Text *)

Contains(s, sub) ==
    \E i \in 1..(Len(s) - Len(sub) + 1) : SubSeq(s, i, i + Len(sub) - 1) = sub

StartsWith(s, p) == Len(s) >= Len(p) /\ SubSeq(s, 1, Len(p)) = p

Digit(k) ==
    CASE k = 0 -> "0" [] k = 1 -> "1" [] k = 2 -> "2" [] k = 3 -> "3"
      [] k = 4 -> "4" [] k = 5 -> "5" [] k = 6 -> "6" [] k = 7 -> "7"
      [] k = 8 -> "8" [] k = 9 -> "9"

RECURSIVE IntStr(_)
IntStr(k) == IF k < 10 THEN Digit(k) ELSE IntStr(k \div 10) \o Digit(k % 10)

\* f"{x:.2f}": x rounded to hundredths (ties to even), sign, integer part,
\* a point and exactly two decimals
Format2f(x) ==
    LET m == Abs(x[1]) * 100
        q == m \div x[2]
        r == m % x[2]
        h == IF 2 * r > x[2] \/ (2 * r = x[2] /\ q % 2 = 1) THEN q + 1 ELSE q
    IN  (IF x[1] < 0 /\ h > 0 THEN "-" ELSE "")
          \o IntStr(h \div 100) \o "." \o Digit((h \div 10) % 10) \o Digit(h % 10)

\* "; ".join(xs)
RECURSIVE Join(_)
Join(xs) ==
    IF Len(xs) = 0 THEN ""
    ELSE IF Len(xs) = 1 THEN xs[1]
    ELSE xs[1] \o "; " \o Join(Tail(xs))

-----------------------------------------------------------------------------
(* Python truthiness of an Optional[float] and the `or` idiom *)

Truthy(x) == x # None /\ x[1] # Zero

\* x or 0.0, for an Optional[float] x
OrZero(x) == IF Truthy(x) THEN x[1] ELSE Zero

\* x in (None, 0)
InNoneZero(x) == x = None \/ x = Some(Zero)

-----------------------------------------------------------------------------
(* What the market-data provider can answer, and what a client can send *)

\* Number of period columns of a financial-statements table
MaxCols == 2

Tickers == {"AAPL", "ADBE"}

\* str(e) of the exception a provider access raises
Errors == {"timeout"}

\* The share count the provider lists for a ticker
ListedShares(ticker) == IF ticker = "AAPL" THEN Rat(500, 1) ELSE Rat(100, 1)

\* t.fast_info: an empty mapping, or last_price / shares_outstanding / currency
\* with the share count zero or the listed one
FastInfos(ticker) ==
    {[last_price |-> None, shares_outstanding |-> None, currency |-> None]}
      \cup {[last_price |-> Some(Rat(10, 1)), shares_outstanding |-> Some(sh),
             currency |-> Some("USD")] : sh \in {Zero, ListedShares(ticker)}}

\* t.info: trailingEps absent, zero or positive
Infos == {[trailingEps |-> e] : e \in {None, Some(Zero), Some(Rat(2, 1))}}

\* A cell of the "Net Income" row: NaN (None) or a number (a loss)
Cells == {None, Some(Rat(-200, 1))}

\* t.financials: None, or a table with its row labels (index), its number of
\* columns and the cells of its "Net Income" row, most recent period first
Financials ==
    {None}
      \cup {Some([index |-> {}, ncols |-> 0, net_income |-> <<>>])}
      \cup {Some([index |-> {"Total Revenue"}, ncols |-> n, net_income |-> <<>>]) :
              n \in 0..MaxCols}
      \cup UNION {{Some([index |-> {"Net Income", "Total Revenue"}, ncols |-> n,
                         net_income |-> row]) : row \in [1..n -> Cells]} :
                    n \in 0..MaxCols}

\* DealStructure (lines 8-17): the fields a client sends.  No field carries a
\* range constraint, so negative values are accepted.
Types == {"cash", "stock", "mix"}

ExchangeRatios == {None, Some(Zero), Some(Rat(1, 2)), Some(Rat(-1, 2))}

DefaultCostOfDebt == Rat(6, 100)

DefaultLostInterest == Rat(3, 100)

DefaultTaxRate == Rat(1, 4)

TaxRates == {Rat(-1, 10), DefaultTaxRate, Rat(3, 5), Rat(9, 10)}

Financing ==
    {[new_debt |-> Zero, cash_used |-> Zero, synergies_pre_tax |-> Zero,
      ppa_amort_post_tax |-> Zero],
     [new_debt |-> Rat(1000, 1), cash_used |-> Rat(400, 1),
      synergies_pre_tax |-> Rat(100, 1), ppa_amort_post_tax |-> Rat(10, 1)]}

DealStructure ==
    {[type |-> ty, exchange_ratio |-> er, new_debt |-> f.new_debt,
      cost_of_debt |-> DefaultCostOfDebt, cash_used |-> f.cash_used,
      lost_interest |-> DefaultLostInterest,
      synergies_pre_tax |-> f.synergies_pre_tax, tax_rate |-> tx,
      ppa_amort_post_tax |-> f.ppa_amort_post_tax] :
        ty \in Types, er \in ExchangeRatios, tx \in TaxRates, f \in Financing}

ProFormaRequest ==
    {[acquirer |-> "AAPL", target |-> "ADBE", structure |-> s] : s \in DealStructure}

-----------------------------------------------------------------------------
(* Basics Resolver: _get_basics, lines 42-72 *)

\* A slip of the except branch: the locals read before the failure are returned
ErrorSnapshotPartial(f, e) ==
    [price |-> f.price, shares |-> f.shares, eps_ttm |-> f.eps_ttm,
     ni_ttm |-> f.ni_ttm, currency |-> f.currency,
     notes |-> "Error fetching " \o f.ticker \o ": " \o e]

\* line 72: the snapshot of the except branch, for the frame f that raised e
ErrorSnapshot(f, e) ==
    [price |-> None, shares |-> None, eps_ttm |-> None, ni_ttm |-> None,
     currency |-> None, notes |-> "Error fetching " \o f.ticker \o ": " \o e]

\* line 70: the snapshot of the normal return, from the locals of the frame
Snapshot(f) ==
    [price |-> f.price, shares |-> f.shares, eps_ttm |-> f.eps_ttm,
     ni_ttm |-> f.ni_ttm, currency |-> f.currency, notes |-> Join(f.notes)]

\* line 57: eps_ttm is not None and shares
HasEpsAndShares(f) == f.eps_ttm # None /\ Truthy(f.shares)

\* fin.empty
FinEmpty(tbl) == tbl.index = {} \/ tbl.ncols = 0

\* fin.loc["Net Income"].dropna()
DropNa(row) == SelectSeq(row, LAMBDA c : c # None)

\* lines 61-68: ni_ttm and the notes after the financials fallback
NiFromFinancials(ticker, fin) ==
    IF fin # None /\ ~FinEmpty(fin[1]) /\ "Net Income" \in fin[1].index
    THEN LET ni_vals == DropNa(fin[1].net_income)
         IN  [ni_ttm |-> IF Len(ni_vals) # 0 THEN ni_vals[1] ELSE None,
              notes |-> <<>>]
    ELSE [ni_ttm |-> None,
          notes |-> <<"Could not derive NI TTM for " \o ticker \o ".">>]

\* The frame of a call of _get_basics: where it is and its locals
NoFrame ==
    [pc |-> "none", ticker |-> "", price |-> None, shares |-> None,
     currency |-> None, eps_ttm |-> None, ni_ttm |-> None, notes |-> <<>>,
     exc |-> None]

\* lines 42-45: entry, notes = [], t = yf.Ticker(ticker)
Call(ticker) == [NoFrame EXCEPT !.pc = "fast_info", !.ticker = ticker]

NoSnapshot ==
    [price |-> None, shares |-> None, eps_ttm |-> None, ni_ttm |-> None,
     currency |-> None, notes |-> ""]

\* lines 47-50: read fast_info; price is the attribute last_price or, when
\* that is falsy, the item last_price, which hold the same value
FastInfo(fi) ==
    /\ fr.pc = "fast_info"
    /\ fr' = [fr EXCEPT !.pc = "info",
                        !.price = IF Truthy(fi.last_price) THEN fi.last_price
                                  ELSE fi.last_price,
                        !.shares = fi.shares_outstanding,
                        !.currency = fi.currency]
    /\ UNCHANGED <<ep, req, ret, A, T, resp, notes>>

\* lines 53-54: read info
Info(info) ==
    /\ fr.pc = "info"
    /\ fr' = [fr EXCEPT !.pc = "ni_ttm", !.eps_ttm = info.trailingEps]
    /\ UNCHANGED <<ep, req, ret, A, T, resp, notes>>

\* lines 56-58 and 70: eps_ttm * shares, then return
NiFromEps ==
    /\ fr.pc = "ni_ttm"
    /\ HasEpsAndShares(fr)
    /\ LET f == [fr EXCEPT !.pc = "returned",
                           !.ni_ttm = Some(RMul(fr.eps_ttm[1], fr.shares[1]))]
       IN  fr' = f /\ ret' = Snapshot(f)
    /\ UNCHANGED <<ep, req, A, T, resp, notes>>

\* lines 59-68 and 70: the financials fallback, then return
NiFromFin(fin) ==
    /\ fr.pc = "ni_ttm"
    /\ ~HasEpsAndShares(fr)
    /\ LET d == NiFromFinancials(fr.ticker, fin)
           f == [fr EXCEPT !.pc = "returned", !.ni_ttm = d.ni_ttm,
                           !.notes = fr.notes \o d.notes]
       IN  fr' = f /\ ret' = Snapshot(f)
    /\ UNCHANGED <<ep, req, A, T, resp, notes>>

\* lines 71-72: a provider access raises (fast_info, info, or financials when
\* the fallback reads it); the except branch returns
Raise(e) ==
    /\ \/ fr.pc \in {"fast_info", "info"}
       \/ fr.pc = "ni_ttm" /\ ~HasEpsAndShares(fr)
    /\ fr' = [fr EXCEPT !.pc = "returned", !.exc = Some(e)]
    /\ ret' = ErrorSnapshot(fr, e)
    /\ UNCHANGED <<ep, req, A, T, resp, notes>>

-----------------------------------------------------------------------------
(* Pro-Forma Calculator: proforma, lines 78-158 *)

MissingAcquirerNote == "Missing acquirer NI or shares; EPS may be unavailable."

MissingTargetNote == "Missing target NI or shares; combination NI may be approximate."

ExchangeRatioNote == "Exchange ratio not provided or zero; no new shares assumed."

ZeroSharesPfNote == "Pro forma shares are zero; cannot compute EPS PF."

ZeroSharesAcqNote == "Acquirer shares are zero; cannot compute standalone EPS."

\* A slip of line 85: a falsy net income (zero) counts as missing
MissingAcquirerFalsy(a) == ~Truthy(a.ni_ttm) \/ InNoneZero(a.shares)

\* lines 85-86
MissingAcquirer(a) == a.ni_ttm = None \/ InNoneZero(a.shares)

\* lines 87-88
MissingTarget(t) == t.ni_ttm = None \/ InNoneZero(t.shares)

\* line 90: tax = max(0.0, min(0.6, tax_rate))
ClampTax(tax_rate) == PyMax(Zero, PyMin(Rat(6, 10), tax_rate))

\* lines 91-92
TaxNotes(s) ==
    LET tax == ClampTax(s.tax_rate)
    IN  IF tax # s.tax_rate
        THEN <<"Adjusted tax_rate to " \o Format2f(tax) \o ".">>
        ELSE <<>>

\* line 94
SynergiesNet(s) == RMul(s.synergies_pre_tax, RSub(One, ClampTax(s.tax_rate)))

\* line 95
InterestNewDebtNet(s) ==
    RMul(RMul(s.new_debt, s.cost_of_debt), RSub(One, ClampTax(s.tax_rate)))

\* A slip of line 96: the raw tax_rate instead of the clamped one
InterestLostNetRaw(s) ==
    RMul(RMul(s.cash_used, s.lost_interest), RSub(One, s.tax_rate))

\* line 96
InterestLostNet(s) ==
    RMul(RMul(s.cash_used, s.lost_interest), RSub(One, ClampTax(s.tax_rate)))

\* lines 107 and 153: ppa_amort_post_tax or 0.0
PpaAmort(s) == IF s.ppa_amort_post_tax # Zero THEN s.ppa_amort_post_tax ELSE Zero

\* line 98
NiAcq(a) == OrZero(a.ni_ttm)

\* line 99
NiTgt(t) == OrZero(t.ni_ttm)

\* A slip of lines 101-108: the interest on new debt added, not subtracted
NiPfSign(a, t, s) ==
    RSub(RSub(RAdd(RAdd(RAdd(NiAcq(a), NiTgt(t)), SynergiesNet(s)),
                   InterestNewDebtNet(s)),
              InterestLostNet(s)),
         PpaAmort(s))

\* lines 101-108
NiPf(a, t, s) ==
    RSub(RSub(RSub(RAdd(RAdd(NiAcq(a), NiTgt(t)), SynergiesNet(s)),
                   InterestNewDebtNet(s)),
              InterestLostNet(s)),
         PpaAmort(s))

\* line 111
SharesAcq(a) == OrZero(a.shares)

\* A slip of line 113: new shares issued whatever the deal type
SharesPfAnyType(a, t, s) ==
    RAdd(OrZero(a.shares), RMul(OrZero(t.shares), OrZero(s.exchange_ratio)))

\* lines 110 and 113-118
SharesPf(a, t, s) ==
    IF s.type \in {"stock", "mix"}
    THEN RAdd(OrZero(a.shares), RMul(OrZero(t.shares), OrZero(s.exchange_ratio)))
    ELSE OrZero(a.shares)

\* lines 113-116
ExchangeRatioNotes(s) ==
    IF s.type \in {"stock", "mix"} /\ OrZero(s.exchange_ratio) = Zero
    THEN <<ExchangeRatioNote>>
    ELSE <<>>

\* lines 120 and 124-125
EpsPf(ni_pf, shares_pf) ==
    IF RGt(shares_pf, Zero) THEN Some(RDiv(ni_pf, shares_pf)) ELSE None

\* lines 126-127
EpsPfNotes(shares_pf) ==
    IF RGt(shares_pf, Zero) THEN <<>> ELSE <<ZeroSharesPfNote>>

\* A slip of line 129: the share count is not tested
EpsAcqUnguarded(ni_acq, shares_acq) ==
    IF ni_acq # None THEN Some(RDiv(ni_acq, shares_acq)) ELSE None

\* lines 121 and 129-130; ni_acq is a float there, never None
EpsAcq(ni_acq, shares_acq) ==
    IF RGt(shares_acq, Zero) /\ ni_acq # None
    THEN Some(RDiv(ni_acq, shares_acq))
    ELSE None

\* lines 131-132
EpsAcqNotes(ni_acq, shares_acq) ==
    IF RGt(shares_acq, Zero) /\ ni_acq # None THEN <<>> ELSE <<ZeroSharesAcqNote>>

\* A slip of line 134: a zero eps_acq is not excluded
AccretionPctNoZeroTest(eps_pf, eps_acq) ==
    IF eps_pf # None /\ eps_acq # None
    THEN Some(RDiv(RSub(eps_pf[1], eps_acq[1]), eps_acq[1]))
    ELSE None

\* lines 122 and 134-135
AccretionPct(eps_pf, eps_acq) ==
    IF eps_pf # None /\ ~InNoneZero(eps_acq)
    THEN Some(RDiv(RSub(eps_pf[1], eps_acq[1]), eps_acq[1]))
    ELSE None

\* lines 138-140: one ticker's fetch note, tagged
TickerNote(tag, d) == IF d.notes # "" THEN <<tag \o ": " \o d.notes>> ELSE <<>>

\* A slip of lines 124-132: the acquirer's zero-shares test before the pro
\* forma one
ProformaNotesSwapped(a, t, s) ==
    (IF MissingAcquirer(a) THEN <<MissingAcquirerNote>> ELSE <<>>)
      \o (IF MissingTarget(t) THEN <<MissingTargetNote>> ELSE <<>>)
      \o TaxNotes(s)
      \o ExchangeRatioNotes(s)
      \o EpsAcqNotes(NiAcq(a), SharesAcq(a))
      \o EpsPfNotes(SharesPf(a, t, s))
      \o TickerNote("Acquirer", a)
      \o TickerNote("Target", t)

\* lines 80-140: the list notes, in the order of its appends
ProformaNotes(a, t, s) ==
    (IF MissingAcquirer(a) THEN <<MissingAcquirerNote>> ELSE <<>>)
      \o (IF MissingTarget(t) THEN <<MissingTargetNote>> ELSE <<>>)
      \o TaxNotes(s)
      \o ExchangeRatioNotes(s)
      \o EpsPfNotes(SharesPf(a, t, s))
      \o EpsAcqNotes(NiAcq(a), SharesAcq(a))
      \o TickerNote("Acquirer", a)
      \o TickerNote("Target", t)

\* line 157: "; ".join([n for n in notes if n])
JoinNotes(ns) == Join(SelectSeq(ns, LAMBDA n : n # ""))

\* lines 146-156
ProFormaBridge(a, t, s) ==
    [ni_pf |-> NiPf(a, t, s), ni_acq |-> NiAcq(a), ni_tgt |-> NiTgt(t),
     synergies_net |-> SynergiesNet(s),
     interest_new_debt_net |-> InterestNewDebtNet(s),
     interest_lost_net |-> InterestLostNet(s),
     ppa_amort_post_tax |-> PpaAmort(s),
     shares_pf |-> SharesPf(a, t, s), shares_acq |-> SharesAcq(a)]

\* A division of the handler raised ZeroDivisionError: the request fails
Raised(eps_pf, eps_acq, accretion_pct) ==
    Some(ZeroDivisionError) \in {eps_pf, eps_acq, accretion_pct}

\* lines 142-158: the response; status 500 when the handler raised
ProFormaResponse(a, t, s) ==
    LET b == ProFormaBridge(a, t, s)
        eps_pf == EpsPf(b.ni_pf, b.shares_pf)
        eps_acq == EpsAcq(b.ni_acq, b.shares_acq)
        accretion_pct == AccretionPct(eps_pf, eps_acq)
    IN  [status |-> IF Raised(eps_pf, eps_acq, accretion_pct) THEN 500 ELSE 200,
         eps_pf |-> eps_pf, eps_acq |-> eps_acq, accretion_pct |-> accretion_pct,
         bridge |-> b, notes |-> JoinNotes(ProformaNotes(a, t, s))]

NoStructure ==
    [type |-> "cash", exchange_ratio |-> Some(Zero), new_debt |-> Zero,
     cost_of_debt |-> DefaultCostOfDebt, cash_used |-> Zero,
     lost_interest |-> DefaultLostInterest, synergies_pre_tax |-> Zero,
     tax_rate |-> DefaultTaxRate, ppa_amort_post_tax |-> Zero]

NoRequest == [acquirer |-> "", target |-> "", structure |-> NoStructure]

NoResponse ==
    [status |-> 0, eps_pf |-> None, eps_acq |-> None, accretion_pct |-> None,
     bridge |-> [ni_pf |-> Zero, ni_acq |-> Zero, ni_tgt |-> Zero,
                 synergies_net |-> Zero, interest_new_debt_net |-> Zero,
                 interest_lost_net |-> Zero, ppa_amort_post_tax |-> Zero,
                 shares_pf |-> Zero, shares_acq |-> Zero],
     notes |-> ""]

-----------------------------------------------------------------------------
(* The service: one request at a time, no state kept between requests *)

Init ==
    /\ ep = "idle"
    /\ req = NoRequest
    /\ fr = NoFrame
    /\ ret = NoSnapshot
    /\ A = NoSnapshot
    /\ T = NoSnapshot
    /\ resp = NoResponse
    /\ notes = <<>>

\* lines 74-76: GET /basics calls _get_basics(ticker)
GetBasics(ticker) ==
    /\ ep = "idle"
    /\ ep' = "basics"
    /\ fr' = Call(ticker)
    /\ UNCHANGED <<req, ret, A, T, resp, notes>>

\* line 76: GET /basics answers with the snapshot
BasicsRespond ==
    /\ ep = "basics"
    /\ fr.pc = "returned"
    /\ ep' = "done"
    /\ UNCHANGED <<req, fr, ret, A, T, resp, notes>>

\* lines 78-82: POST /proforma starts, notes = [], and calls
\* _get_basics(req.acquirer)
PostProforma(r) ==
    /\ ep = "idle"
    /\ ep' = "acquirer"
    /\ req' = r
    /\ fr' = Call(r.acquirer)
    /\ UNCHANGED <<ret, A, T, resp, notes>>

\* lines 82-83: A is bound, _get_basics(req.target) is called
BindAcquirer ==
    /\ ep = "acquirer"
    /\ fr.pc = "returned"
    /\ A' = ret
    /\ ep' = "target"
    /\ fr' = Call(req.target)
    /\ UNCHANGED <<req, ret, T, resp, notes>>

\* lines 83-158: T is bound and the response is computed and returned
Compute ==
    /\ ep = "target"
    /\ fr.pc = "returned"
    /\ T' = ret
    /\ notes' = ProformaNotes(A, ret, req.structure)
    /\ resp' = ProFormaResponse(A, ret, req.structure)
    /\ fr' = NoFrame
    /\ ep' = "done"
    /\ UNCHANGED <<req, ret, A>>

\* The request is over; nothing of it is kept
Finish ==
    /\ ep = "done"
    /\ ep' = "idle"
    /\ req' = NoRequest
    /\ fr' = NoFrame
    /\ ret' = NoSnapshot
    /\ A' = NoSnapshot
    /\ T' = NoSnapshot
    /\ resp' = NoResponse
    /\ notes' = <<>>

Next ==
    \/ \E ticker \in Tickers : GetBasics(ticker)
    \/ \E r \in ProFormaRequest : PostProforma(r)
    \/ \E fi \in FastInfos(fr.ticker) : FastInfo(fi)
    \/ \E info \in Infos : Info(info)
    \/ NiFromEps
    \/ \E fin \in Financials : NiFromFin(fin)
    \/ \E e \in Errors : Raise(e)
    \/ BasicsRespond
    \/ BindAcquirer
    \/ Compute
    \/ Finish

Spec == Init /\ [][Next]_vars

-----------------------------------------------------------------------------
(* Properties *)

\* A call of _get_basics has returned
Returned == fr.pc = "returned"

\* POST /proforma has answered
ProformaDone == ep = "done" /\ resp.status # 0

\* The note n is in the response: appended to the list and in the joined text
Present(n) == (\E i \in 1..Len(notes) : notes[i] = n) /\ Contains(resp.notes, n)

\* The note n is in the response neither as an item nor as text
Absent(n) == (\A i \in 1..Len(notes) : notes[i] # n) /\ ~Contains(resp.notes, n)

\* C1: _get_basics never raises to its caller: a call in which a provider
\* access raised has returned, whatever had been read before, and its snapshot
\* has price, shares, eps_ttm, ni_ttm and currency null and a note that
\* contains the ticker and the error message.
C1_ErrorSnapshot ==
    fr.exc # None =>
        /\ Returned
        /\ ret.price = None
        /\ ret.shares = None
        /\ ret.eps_ttm = None
        /\ ret.ni_ttm = None
        /\ ret.currency = None
        /\ Contains(ret.notes, "Error")
        /\ Contains(ret.notes, fr.ticker)
        /\ Contains(ret.notes, fr.exc[1])

\* The financials access raised after price, shares and eps_ttm had been read
C1_Witness ==
    /\ Returned
    /\ fr.exc # None
    /\ fr.price # None
    /\ Truthy(fr.shares)
    /\ fr.currency # None
    /\ fr.eps_ttm = None
    /\ ret.shares = None
    /\ ret.price = None

\* C2: whenever _get_basics returns without a provider error and with a null
\* net_income_ttm, the snapshot's notes contain
\* "Could not derive NI TTM for {ticker}.".
C2_NullNiHasNote ==
    (Returned /\ fr.exc = None /\ ret.ni_ttm = None) =>
        Contains(ret.notes, "Could not derive NI TTM for " \o fr.ticker \o ".")

\* C3: in every response accretion_pct is null when eps_pf is null, when
\* eps_acq is null and when eps_acq is 0; otherwise it is non-null and equals
\* (eps_pf - eps_acq) / eps_acq; no division by zero is performed (the
\* handler never raises ZeroDivisionError).
C3_Accretion ==
    ProformaDone =>
        /\ resp.status = 200
        /\ resp.eps_pf # Some(ZeroDivisionError)
        /\ resp.eps_acq # Some(ZeroDivisionError)
        /\ resp.accretion_pct # Some(ZeroDivisionError)
        /\ IF resp.eps_pf = None \/ resp.eps_acq = None \/ resp.eps_acq = Some(Zero)
           THEN resp.accretion_pct = None
           ELSE /\ resp.accretion_pct # None
                /\ RMul(resp.accretion_pct[1], resp.eps_acq[1])
                     = RSub(resp.eps_pf[1], resp.eps_acq[1])

\* eps_acq is 0 (a zero net income over 500 shares) and eps_pf is not null
C3_Witness ==
    /\ ProformaDone
    /\ resp.eps_acq = Some(Zero)
    /\ resp.eps_pf # None
    /\ resp.eps_pf # Some(Zero)
    /\ resp.accretion_pct = None

\* C4: acquirer shares 0 or null give a null eps_acq and the acquirer
\* zero-shares note, for any net income; a pro forma share count not above 0
\* gives a null eps_pf and the pro forma zero-shares note; and each of the two
\* notes is present only when its EPS is null.
C4_ZeroShares ==
    ProformaDone =>
        /\ InNoneZero(A.shares) =>
              resp.eps_acq = None /\ Present(ZeroSharesAcqNote)
        /\ ~RGt(resp.bridge.shares_pf, Zero) =>
              resp.eps_pf = None /\ Present(ZeroSharesPfNote)
        /\ resp.eps_acq # None => Absent(ZeroSharesAcqNote)
        /\ resp.eps_pf # None => Absent(ZeroSharesPfNote)

\* The acquirer has a net income and zero shares; the stock deal issues shares
C4_Witness ==
    /\ ProformaDone
    /\ A.shares = Some(Zero)
    /\ A.ni_ttm # None
    /\ resp.eps_acq = None
    /\ Present(ZeroSharesAcqNote)
    /\ resp.eps_pf # None
    /\ Absent(ZeroSharesPfNote)

\* The tax rate the claims expect: the supplied one brought into [0, 0.6]
ExpectedTax(raw) ==
    IF RLt(raw, Zero) THEN Zero
    ELSE IF RGt(raw, Rat(3, 5)) THEN Rat(3, 5)
    ELSE raw

\* The notes of the list that report a tax adjustment
TaxAdjustNotes ==
    {i \in 1..Len(notes) : StartsWith(notes[i], "Adjusted tax_rate to ")}

\* C5: the three after-tax terms are computed with the tax rate clamped into
\* [0, 0.6], never with the raw one, and the note "Adjusted tax_rate to
\* <2 decimals>." is emitted exactly when clamping changed the value.
C5_TaxClamp ==
    ProformaDone =>
        LET s == req.structure
            tax == ExpectedTax(s.tax_rate)
            keep == RSub(One, tax)
        IN  /\ ~RLt(tax, Zero) /\ ~RGt(tax, Rat(3, 5))
            /\ resp.bridge.synergies_net = RMul(s.synergies_pre_tax, keep)
            /\ resp.bridge.interest_new_debt_net
                 = RMul(RMul(s.new_debt, s.cost_of_debt), keep)
            /\ resp.bridge.interest_lost_net
                 = RMul(RMul(s.cash_used, s.lost_interest), keep)
            /\ RLt(s.tax_rate, Zero) =>
                  /\ Present("Adjusted tax_rate to 0.00.")
                  /\ Cardinality(TaxAdjustNotes) = 1
            /\ RGt(s.tax_rate, Rat(3, 5)) =>
                  /\ Present("Adjusted tax_rate to 0.60.")
                  /\ Cardinality(TaxAdjustNotes) = 1
            /\ tax = s.tax_rate =>
                  /\ TaxAdjustNotes = {}
                  /\ ~Contains(resp.notes, "Adjusted tax_rate")

\* tax_rate 0.9 with synergies 100, new debt 1000 and cash used 400
C5_Witness ==
    /\ ProformaDone
    /\ req.structure.tax_rate = Rat(9, 10)
    /\ req.structure.synergies_pre_tax = Rat(100, 1)
    /\ resp.bridge.synergies_net = Rat(40, 1)
    /\ resp.bridge.interest_new_debt_net = Rat(24, 1)
    /\ resp.bridge.interest_lost_net = Rat(48, 10)
    /\ Present("Adjusted tax_rate to 0.60.")

\* x or 0.0 as the claims state it: a null value replaced by 0.0
NullAsZero(x) == IF x = None THEN Zero ELSE x[1]

\* C6: for a cash deal shares_pf equals shares_acq, the acquirer's shares (0.0
\* when absent), whatever exchange_ratio and the target's shares are; for a
\* stock or mix deal shares_pf is the acquirer's shares plus the target's shares
\* times exchange_ratio, each 0.0 when absent (500 + 100 * 0.5 = 550).
C6_SharesPf ==
    ProformaDone =>
        LET s == req.structure
            b == resp.bridge
        IN  /\ b.shares_acq = NullAsZero(A.shares)
            /\ s.type = "cash" => b.shares_pf = b.shares_acq
            /\ s.type \in {"stock", "mix"} =>
                  b.shares_pf
                    = RAdd(NullAsZero(A.shares),
                           RMul(NullAsZero(T.shares), NullAsZero(s.exchange_ratio)))
            /\ (s.type \in {"stock", "mix"} /\ A.shares = Some(Rat(500, 1))
                  /\ T.shares = Some(Rat(100, 1))
                  /\ s.exchange_ratio = Some(Rat(1, 2))) =>
                  b.shares_pf = Rat(550, 1)

\* A stock deal: acquirer 500 shares, target 100 shares, exchange ratio 0.5
C6_Witness ==
    /\ ProformaDone
    /\ req.structure.type = "stock"
    /\ req.structure.exchange_ratio = Some(Rat(1, 2))
    /\ A.shares = Some(Rat(500, 1))
    /\ T.shares = Some(Rat(100, 1))
    /\ resp.bridge.shares_pf = Rat(550, 1)
    /\ resp.bridge.shares_acq = Rat(500, 1)

\* A cash deal with an exchange ratio of 0.5 and a target with 100 shares
C6_CashCase ==
    /\ ProformaDone
    /\ req.structure.type = "cash"
    /\ req.structure.exchange_ratio = Some(Rat(1, 2))
    /\ A.shares = Some(Rat(500, 1))
    /\ T.shares = Some(Rat(100, 1))
    /\ resp.bridge.shares_pf = Rat(500, 1)

\* The place of a note in the order the response lists them, 0 when unknown
Kind(n) ==
    CASE n = MissingAcquirerNote -> 1
      [] n = MissingTargetNote -> 2
      [] StartsWith(n, "Adjusted tax_rate to ") -> 3
      [] n = ExchangeRatioNote -> 4
      [] n = ZeroSharesPfNote -> 5
      [] n = ZeroSharesAcqNote -> 6
      [] StartsWith(n, "Acquirer: ") -> 7
      [] StartsWith(n, "Target: ") -> 8
      [] OTHER -> 0

\* The position in the joined text at which item i of ns starts
RECURSIVE Offset(_, _)
Offset(ns, i) == IF i = 1 THEN 1 ELSE Offset(ns, i - 1) + Len(ns[i - 1]) + 2

\* text is exactly the items of ns, in order, separated by "; "
IsJoined(text, ns) ==
    IF Len(ns) = 0 THEN text = ""
    ELSE /\ Len(text) = Offset(ns, Len(ns)) + Len(ns[Len(ns)]) - 1
         /\ \A i \in 1..Len(ns) :
               SubSeq(text, Offset(ns, i), Offset(ns, i) + Len(ns[i]) - 1) = ns[i]
         /\ \A i \in 2..Len(ns) :
               SubSeq(text, Offset(ns, i) - 2, Offset(ns, i) - 1) = "; "

\* C7: the notes present appear in the order missing-acquirer, missing-target,
\* tax-clamp, exchange-ratio, pro forma zero-shares, acquirer zero-shares,
\* "Acquirer: " fetch note, "Target: " fetch note; the notes field is the
\* non-empty notes joined with "; " in that order; a ticker's fetch note is
\* appended exactly when it is non-empty.
C7_NotesOrder ==
    ProformaDone =>
        /\ \A i \in 1..Len(notes) : Kind(notes[i]) # 0 /\ notes[i] # ""
        /\ \A i \in 1..Len(notes) : \A j \in 1..Len(notes) :
              i < j => Kind(notes[i]) < Kind(notes[j])
        /\ IsJoined(resp.notes, notes)
        /\ (A.notes # "") <=> (\E i \in 1..Len(notes) : notes[i] = "Acquirer: " \o A.notes)
        /\ (A.notes = "") <=> (\A i \in 1..Len(notes) : Kind(notes[i]) # 7)
        /\ (T.notes # "") <=> (\E i \in 1..Len(notes) : notes[i] = "Target: " \o T.notes)
        /\ (T.notes = "") <=> (\A i \in 1..Len(notes) : Kind(notes[i]) # 8)

\* All eight notes are present in one response
C7_Witness ==
    /\ ProformaDone
    /\ Len(notes) = 8
    /\ \A k \in 1..8 : Kind(notes[k]) = k

C8_NullTargetCase ==
    /\ ProformaDone
    /\ req.structure.type = "stock"
    /\ req.structure.new_debt # Zero
    /\ req.structure.tax_rate = Rat(1, 4)
    /\ A.ni_ttm = Some(Rat(1000, 1))
    /\ T.ni_ttm = None
    /\ resp.bridge.ni_tgt = Zero
    /\ resp.bridge.ni_pf = Rat(1011, 1)

\* C9: a party's missing-data note is emitted if and only if its
\* net_income_ttm is null or its shares_outstanding is null or zero; a zero
\* net income with non-zero shares does not trigger it, and an all-null target
\* snapshot always does.
C9_MissingNotes ==
    ProformaDone =>
        /\ IF A.ni_ttm = None \/ A.shares = None \/ A.shares = Some(Zero)
           THEN Present(MissingAcquirerNote)
           ELSE Absent(MissingAcquirerNote)
        /\ IF T.ni_ttm = None \/ T.shares = None \/ T.shares = Some(Zero)
           THEN Present(MissingTargetNote)
           ELSE Absent(MissingTargetNote)

\* The acquirer's net income is a present zero over 500 shares, the target's
\* snapshot is all null
C9_Witness ==
    /\ ProformaDone
    /\ A.ni_ttm = Some(Zero)
    /\ A.shares = Some(Rat(500, 1))
    /\ Absent(MissingAcquirerNote)
    /\ T.ni_ttm = None /\ T.shares = None /\ T.price = None /\ T.eps_ttm = None
    /\ Present(MissingTargetNote)

\* C10: in every response shares_pf >= shares_acq >= 0: no deal reduces the
\* share count below the acquirer's own and no negative exchange_ratio reaches
\* the share computation.
C10_SharesNotReduced ==
    ProformaDone =>
        /\ ~RLt(resp.bridge.shares_acq, Zero)
        /\ ~RLt(resp.bridge.shares_pf, resp.bridge.shares_acq)

====
